---- MODULE Spec2Model ----
(***************************************************************************)
(* Message analysis and scoring pipeline of the Slack community bot:       *)
(* ScoringSystem (scoring_system.py), ContentAnalyzer                      *)
(* (content_analyzer.py), SlackClient (slack_client.py) and                *)
(* MessageProcessor (message_processor.py).                                *)
(***************************************************************************)
EXTENDS Integers, Sequences, FiniteSets, TLC

VARIABLES
    users,      \* ScoringSystem.users: the dict, as the sequence of its values in insertion order
    file,       \* the score file of save_to_file / load_from_file: NoFile or its JSON document
    sums,       \* history: per user id, the elementwise sum of the arguments of all add_user_activity calls
    firstOrder, \* history: the user ids in the order of their first add_user_activity call
    saved,      \* history: the users of the engine that wrote the current file
    loaded,     \* history: TRUE while users is what load_from_file built from the file
    loadOutcome,\* how the last load_from_file call ended: "none", "ok", "missing" or "raised"
    ncalls,     \* number of add_user_activity calls made (bounded by MaxCalls)
    lastCall    \* history: the user_id and user_name of the latest add_user_activity call

scoringVars == <<users, file, sums, firstOrder, saved, loaded, loadOutcome, ncalls, lastCall>>

VARIABLES
    now,               \* time.time(), in units of 1.5 seconds
    last_request_time, \* ContentAnalyzer.last_request_time
    apc,               \* per caller, its place in analyze_post: "idle", "sleep" or "call"
    wake,              \* per caller, the time its time.sleep ends (0 outside analyze_post)
    nreq,              \* per caller, the analyze_post calls it has started
    issued,            \* history: the times at which requests were sent to the model
    ret,               \* the last return of analyze_post: the model's answer and the result
    batch              \* batch_analyze: its place, its posts and results, and the calls it made

analyzerVars == <<now, last_request_time, apc, wake, nreq, issued, ret, batch>>

VARIABLES
    pc,                \* process_channel: "idle", "analyzing", "done" (returned) or "raised"
    channel_id,        \* the channel of the current process_channel call
    messages,          \* process_channel: the fetched messages with their user_info
    idx,               \* process_channel: the place of the for loop in messages
    violations,        \* MessageProcessor.violations
    positive_messages, \* MessageProcessor.positive_messages
    sent,              \* the alerts handed to send_violation_alert, with the outcome
    summary,           \* what the last process_channel call returned
    nruns,             \* process_channel calls made, one per channel of Channels
    nfetched,          \* messages fetched by all calls (bounded by MaxMessages)
    nlookups,          \* history: get_reactions calls made
    lastPass,          \* history: what the latest pass of the for loop met and did
    main               \* main_slack_bot.py: the place of main() and what it did

channelVars ==
    <<pc, channel_id, messages, idx, violations, positive_messages, sent,
      summary, nruns, nfetched, nlookups, lastPass, main>>

vars == <<scoringVars, analyzerVars, channelVars>>

(***************************************************************************)
(* Bounds of the model.                                                    *)
(***************************************************************************)
\* add_user_activity calls in one behaviour
MaxCalls == 3
\* analyze_post calls in one behaviour, of all callers together
MaxRequests == 3
\* the clock stops at MaxTime
MaxTime == 10
\* messages fetched in one behaviour, by all process_channel calls together
MaxMessages == 2

(***************************************************************************)
(* scoring_system.py                                                       *)
(***************************************************************************)
UserIds == {"U1", "U2", "U3"}
UserNames == {"A", "B"}

\* @dataclass UserScore: the constructor with the defaults of the count fields
UserScore(user_id, user_name) ==
    [user_id |-> user_id, user_name |-> user_name, post_count |-> 0,
     positive_count |-> 0, reaction_count |-> 0, violation_count |-> 0,
     total_score |-> 0]

\* UserScore.calculate_total_score (the weights 1.0, 5.0, 2.0, 10.0 are integral)
calculate_total_score(u) ==
    u.post_count * 1 + u.positive_count * 5 + u.reaction_count * 2
        - u.violation_count * 10

\* `user_id in self.users`
HasUser(us, user_id) == \E i \in 1..Len(us) : us[i].user_id = user_id

\* position of user_id in the dict's insertion order (0 when absent)
IndexOf(us, user_id) ==
    IF HasUser(us, user_id)
    THEN CHOOSE i \in 1..Len(us) : us[i].user_id = user_id
    ELSE 0

\* a mutation of AddActivity: the record takes the user_name of each call
AddActivityRename(us, user_id, user_name, post_count, positive_count, reaction_received, violation_count) ==
    LET base == IF HasUser(us, user_id) THEN us
                ELSE Append(us, UserScore(user_id, user_name))
        i == IndexOf(base, user_id)
    IN [base EXCEPT ![i].user_name = user_name,
                    ![i].post_count = @ + post_count,
                    ![i].positive_count = @ + positive_count,
                    ![i].reaction_count = @ + reaction_received,
                    ![i].violation_count = @ + violation_count]

\* a mutation of AddActivity: the counts are assigned, not added
AddActivityOverwrite(us, user_id, user_name, post_count, positive_count, reaction_received, violation_count) ==
    LET base == IF HasUser(us, user_id) THEN us
                ELSE Append(us, UserScore(user_id, user_name))
        i == IndexOf(base, user_id)
    IN [base EXCEPT ![i].post_count = post_count,
                    ![i].positive_count = positive_count,
                    ![i].reaction_count = reaction_received,
                    ![i].violation_count = violation_count]

\* a mutation of AddActivity: a new record is put in front of the others
AddActivityFront(us, user_id, user_name, post_count, positive_count, reaction_received, violation_count) ==
    LET base == IF HasUser(us, user_id) THEN us
                ELSE <<UserScore(user_id, user_name)>> \o us
        i == IndexOf(base, user_id)
    IN [base EXCEPT ![i].post_count = @ + post_count,
                    ![i].positive_count = @ + positive_count,
                    ![i].reaction_count = @ + reaction_received,
                    ![i].violation_count = @ + violation_count]

\* ScoringSystem.add_user_activity, as a function of the dict
AddActivity(us, user_id, user_name, post_count, positive_count, reaction_received, violation_count) ==
    LET base == IF HasUser(us, user_id) THEN us
                ELSE Append(us, UserScore(user_id, user_name))
        i == IndexOf(base, user_id)
    IN [base EXCEPT ![i].post_count = @ + post_count,
                    ![i].positive_count = @ + positive_count,
                    ![i].reaction_count = @ + reaction_received,
                    ![i].violation_count = @ + violation_count]

\* a mutation of InsertByScore: a record goes in front of the records of equal score
InsertByScoreUnstable(sorted, u) ==
    LET k == Cardinality({i \in 1..Len(sorted) :
                 calculate_total_score(sorted[i]) > calculate_total_score(u)})
    IN SubSeq(sorted, 1, k) \o <<u>> \o SubSeq(sorted, k + 1, Len(sorted))

\* a mutation of InsertByScore: ascending order (reverse=True forgotten)
InsertByScoreAscending(sorted, u) ==
    LET k == Cardinality({i \in 1..Len(sorted) :
                 calculate_total_score(sorted[i]) <= calculate_total_score(u)})
    IN SubSeq(sorted, 1, k) \o <<u>> \o SubSeq(sorted, k + 1, Len(sorted))

\* one step of sorted(..., key=calculate_total_score, reverse=True): the sort is
\* stable, so a record goes behind every record already placed whose score is
\* greater than or equal to its own
InsertByScore(sorted, u) ==
    LET k == Cardinality({i \in 1..Len(sorted) :
                 calculate_total_score(sorted[i]) >= calculate_total_score(u)})
    IN SubSeq(sorted, 1, k) \o <<u>> \o SubSeq(sorted, k + 1, Len(sorted))

RECURSIVE SortedFrom(_, _, _)
SortedFrom(us, i, acc) ==
    IF i > Len(us) THEN acc
    ELSE SortedFrom(us, i + 1, InsertByScore(acc, us[i]))

\* ScoringSystem.calculate_rankings
calculate_rankings(us) == SortedFrom(us, 1, <<>>)

\* a mutation of RankEntry: the rank counts from 0
RankEntryFromZero(rank, user) ==
    [rank |-> rank - 1, user_id |-> user.user_id, user_name |-> user.user_name,
     total_score |-> calculate_total_score(user),
     post_count |-> user.post_count, positive_count |-> user.positive_count,
     reaction_count |-> user.reaction_count]

\* get_rankings: the dict appended for the record enumerate numbers rank
RankEntry(rank, user) ==
    [rank |-> rank, user_id |-> user.user_id, user_name |-> user.user_name,
     total_score |-> calculate_total_score(user),
     post_count |-> user.post_count, positive_count |-> user.positive_count,
     reaction_count |-> user.reaction_count]

\* the slice s[:n] of a list (a negative n counts from the end)
SliceTo(s, n) ==
    LET stop == IF n < 0 THEN (IF Len(s) + n < 0 THEN 0 ELSE Len(s) + n)
                ELSE (IF n < Len(s) THEN n ELSE Len(s))
    IN SubSeq(s, 1, stop)

\* ScoringSystem.get_rankings
get_rankings(us, top_n) ==
    LET sorted_users == SliceTo(calculate_rankings(us), top_n)
    IN [rank \in 1..Len(sorted_users) |-> RankEntry(rank, sorted_users[rank])]

(***************************************************************************)
(* JSON values, as json.dump writes and json.load reads them: a value      *)
(* carries its kind; an object keeps its members in document order.        *)
(***************************************************************************)
JNum(n) == [k |-> "num", v |-> n]
JStr(s) == [k |-> "str", v |-> s]
JBool(b) == [k |-> "bool", v |-> b]
JNull == [k |-> "null", v |-> 0]
JList(items) == [k |-> "list", v |-> items]
JObj(members) == [k |-> "obj", v |-> members]
Member(key, val) == [key |-> key, val |-> val]

\* `key in d` for a dict d
HasKey(obj, key) == \E i \in 1..Len(obj.v) : obj.v[i].key = key

\* d[key] for a dict d that has the key
Lookup(obj, key) ==
    obj.v[CHOOSE i \in 1..Len(obj.v) : obj.v[i].key = key].val

\* d.get(key, default)
Get(obj, key, default) == IF HasKey(obj, key) THEN Lookup(obj, key) ELSE default

NoFile == [k |-> "nofile", v |-> <<>>]

\* a mutation of ScoreData: the violation count is left out of the document
ScoreDataNoViolation(score) ==
    JObj(<<Member("user_name", JStr(score.user_name)),
           Member("post_count", JNum(score.post_count)),
           Member("positive_count", JNum(score.positive_count)),
           Member("reaction_count", JNum(score.reaction_count)),
           Member("total_score", JNum(score.total_score))>>)

\* save_to_file: the document member written for one record
ScoreData(score) ==
    JObj(<<Member("user_name", JStr(score.user_name)),
           Member("post_count", JNum(score.post_count)),
           Member("positive_count", JNum(score.positive_count)),
           Member("reaction_count", JNum(score.reaction_count)),
           Member("violation_count", JNum(score.violation_count)),
           Member("total_score", JNum(score.total_score))>>)

\* save_to_file: the document json.dump writes, one member per user in dict order
Serialize(us) ==
    JObj([i \in 1..Len(us) |-> Member(us[i].user_id, ScoreData(us[i]))])

\* load_from_file: the UserScore built from one member of the document
LoadRecord(user_id, score_data) ==
    [user_id |-> user_id,
     user_name |-> Lookup(score_data, "user_name").v,
     post_count |-> Get(score_data, "post_count", JNum(0)).v,
     positive_count |-> Get(score_data, "positive_count", JNum(0)).v,
     reaction_count |-> Get(score_data, "reaction_count", JNum(0)).v,
     violation_count |-> Get(score_data, "violation_count", JNum(0)).v,
     total_score |-> Get(score_data, "total_score", JNum(0)).v]

\* load_from_file: the loop over data.items(); score_data["user_name"] raises
\* for a member that is no dict or has no user_name, and the records built
\* before it stay in self.users
RECURSIVE LoadItems(_, _, _)
LoadItems(members, i, acc) ==
    IF i > Len(members) THEN [users |-> acc, outcome |-> "ok"]
    ELSE IF members[i].val.k # "obj" \/ ~HasKey(members[i].val, "user_name")
         THEN [users |-> acc, outcome |-> "raised"]
         ELSE LoadItems(members, i + 1,
                        Append(acc, LoadRecord(members[i].key, members[i].val)))

\* ScoringSystem.load_from_file on the file f of an engine whose dict is us:
\* FileNotFoundError is caught; a json.load error is raised before self.users
\* is reset; data.items() of a document that is no dict is raised after it
Load(f, us) ==
    IF f = NoFile THEN [users |-> us, outcome |-> "missing"]
    ELSE IF f.k = "garbage" THEN [users |-> us, outcome |-> "raised"]
    ELSE IF f.k # "obj" THEN [users |-> <<>>, outcome |-> "raised"]
    ELSE LoadItems(f.v, 1, <<>>)

(***************************************************************************)
(* content_analyzer.py                                                     *)
(***************************************************************************)
\* ContentAnalyzer.request_interval: 4.5 seconds, in units of 1.5 seconds
RequestInterval == 3

\* the dict of the five fields the prompt asks the model for
Analysis(guideline_violation, violation_reason, positive_feedback, positive_type, contribution_score) ==
    JObj(<<Member("guideline_violation", guideline_violation),
           Member("violation_reason", violation_reason),
           Member("positive_feedback", positive_feedback),
           Member("positive_type", positive_type),
           Member("contribution_score", contribution_score)>>)

\* a mutation of SafeDefault: the fallback flags a violation
SafeDefaultFlagged ==
    Analysis(JNum(100), JNull, JBool(FALSE), JNull, JNum(0))

\* analyze_post: the dict returned from the except branch
SafeDefault == Analysis(JNum(0), JNull, JBool(FALSE), JNull, JNum(0))

\* JSON payloads the model answers with: four that follow the prompt, one
\* that also spells the positive flag is_positive, and one that is valid
\* JSON but no object
ReplyThanks ==
    Analysis(JNum(0), JNull, JBool(TRUE), JStr("gratitude"), JNum(7))
ReplyOffence ==
    Analysis(JNum(80), JStr("insult"), JBool(FALSE), JNull, JNum(0))
ReplyBorderline ==
    Analysis(JNum(50), JStr("tone"), JBool(FALSE), JNull, JNum(1))
ReplyBoth ==
    JObj(<<Member("guideline_violation", JNum(80)),
           Member("violation_reason", JStr("sarcasm")),
           Member("positive_feedback", JBool(TRUE)),
           Member("is_positive", JBool(TRUE)),
           Member("contribution_score", JNum(2))>>)
ReplyList == JList(<<>>)

Payloads == {ReplyThanks, ReplyOffence, ReplyBorderline, ReplyBoth, ReplyList}

\* the pieces of a response text: a ```json fence, a bare ``` fence, a line
\* break, a stretch of prose, and the text of one JSON value
FenceJson == [t |-> "fencejson", v |-> JNull]
Fence == [t |-> "fence", v |-> JNull]
Newline == [t |-> "newline", v |-> JNull]
Prose == [t |-> "prose", v |-> JNull]
JsonText(value) == [t |-> "json", v |-> value]

\* the outcomes of self.model.generate_content(prompt): an exception, or a
\* response whose text is one of these
Raises == <<[t |-> "raises", v |-> JNull]>>
\* the form the prompt asks for: the payload in a fence tagged json
Fenced(payload) == <<FenceJson, Newline, JsonText(payload), Newline, Fence>>
Responses ==
    {Fenced(p) : p \in Payloads}
    \cup {<<JsonText(ReplyThanks), Newline>>,
          <<Fence, Newline, JsonText(ReplyOffence), Newline, Fence>>,
          <<Prose, Newline, FenceJson, JsonText(ReplyOffence), Fence, Prose>>,
          <<Prose>>,
          <<Prose, JsonText(ReplyThanks)>>,
          <<FenceJson, Prose, Fence>>}
GenerateOutcomes == {Raises} \cup Responses

\* `marker in text`
Contains(text, marker) == \E i \in 1..Len(text) : text[i] = marker

\* text.split(marker)[1]: what follows the first marker, up to the next one
AfterFirst(text, marker) ==
    LET first == CHOOSE i \in 1..Len(text) :
                     text[i] = marker /\ \A j \in 1..(i - 1) : text[j] # marker
        later == {i \in (first + 1)..Len(text) : text[i] = marker}
        stop == IF later = {} THEN Len(text) + 1
                ELSE CHOOSE i \in later : \A j \in later : i <= j
    IN SubSeq(text, first + 1, stop - 1)

\* text.split("```")[0]: what precedes the first fence of either kind ("```"
\* is also the head of "```json")
BeforeFence(text) ==
    LET fences == {i \in 1..Len(text) : text[i] \in {Fence, FenceJson}}
        stop == IF fences = {} THEN Len(text) + 1
                ELSE CHOOSE i \in fences : \A j \in fences : i <= j
    IN SubSeq(text, 1, stop - 1)

\* a mutation of ExtractJson: only the ```json fence is stripped
ExtractJsonOnlyTagged(text) ==
    IF Contains(text, FenceJson)
    THEN BeforeFence(AfterFirst(text, FenceJson))
    ELSE text

\* analyze_post: the two branches that take the JSON block out of the response
ExtractJson(text) ==
    IF Contains(text, FenceJson)
    THEN BeforeFence(AfterFirst(text, FenceJson))
    ELSE IF Contains(text, Fence)
         THEN BeforeFence(AfterFirst(text, Fence))
         ELSE text

\* the text without its line breaks (json.loads skips white space around a value)
RECURSIVE NoWhitespace(_)
NoWhitespace(text) ==
    IF text = <<>> THEN <<>>
    ELSE IF Head(text) = Newline THEN NoWhitespace(Tail(text))
         ELSE <<Head(text)>> \o NoWhitespace(Tail(text))

\* json.loads succeeds on the text of exactly one JSON value
JsonLoadsOk(text) ==
    LET body == NoWhitespace(text)
    IN Len(body) = 1 /\ body[1].t = "json"

JsonLoads(text) == NoWhitespace(text)[1].v

\* analyze_post from the generate_content call on: the parsed value, or the
\* safe default when the call or json.loads raised
AnalyzePostResult(outcome) ==
    IF outcome = Raises THEN SafeDefault
    ELSE LET result_text == ExtractJson(outcome)
         IN IF JsonLoadsOk(result_text) THEN JsonLoads(result_text)
            ELSE SafeDefault

Callers == {1, 2}

NoReturn == [outcome |-> <<>>, result |-> JNull]

\* no batch_analyze call was made; calls is the history of the analyze_post
\* calls of the latest batch_analyze: the post passed and the result returned
NoBatch == [pc |-> "idle", posts |-> <<>>, results |-> <<>>, calls |-> <<>>]

InitAnalyzer ==
    /\ now = RequestInterval
    /\ last_request_time = 0
    /\ apc = [c \in Callers |-> "idle"]
    /\ wake = [c \in Callers |-> 0]
    /\ nreq = [c \in Callers |-> 0]
    /\ issued = <<>>
    /\ ret = NoReturn
    /\ batch = NoBatch

\* a mutation of SleepTime: the elapsed time is slept, not the remainder
SleepTimeElapsed(current_time, last) ==
    LET time_since_last_request == current_time - last
    IN IF time_since_last_request < RequestInterval
       THEN time_since_last_request
       ELSE 0

\* analyze_post: the argument of time.sleep (0 when it is not called)
SleepTime(current_time, last) ==
    LET time_since_last_request == current_time - last
    IN IF time_since_last_request < RequestInterval
       THEN RequestInterval - time_since_last_request
       ELSE 0

\* the clock advances
Tick ==
    /\ now < MaxTime
    /\ now' = now + 1
    /\ UNCHANGED <<last_request_time, apc, wake, nreq, issued, ret, batch>>
    /\ UNCHANGED scoringVars
    /\ UNCHANGED channelVars

\* analyze_post, the rate limit check: current_time and last_request_time
\* are read and time.sleep is entered
BeginAnalyze(c) ==
    /\ apc[c] = "idle"
    /\ nreq[1] + nreq[2] < MaxRequests
    /\ nreq' = [nreq EXCEPT ![c] = @ + 1]
    /\ wake' = [wake EXCEPT ![c] = now + SleepTime(now, last_request_time)]
    /\ apc' = [apc EXCEPT ![c] = "sleep"]
    /\ UNCHANGED <<now, last_request_time, issued, ret, batch>>
    /\ UNCHANGED scoringVars
    /\ UNCHANGED channelVars

\* analyze_post, after the sleep: last_request_time is set and the prompt is
\* sent (time.sleep returns no earlier than asked, possibly later)
SendRequest(c) ==
    /\ apc[c] = "sleep"
    /\ now >= wake[c]
    /\ last_request_time' = now
    /\ issued' = Append(issued, now)
    /\ apc' = [apc EXCEPT ![c] = "call"]
    /\ UNCHANGED <<now, wake, nreq, ret, batch>>
    /\ UNCHANGED scoringVars
    /\ UNCHANGED channelVars

\* analyze_post, the try block: generate_content answers or raises, the
\* answer is parsed, and the call returns
ReturnAnalysis(c) ==
    /\ apc[c] = "call"
    /\ \E outcome \in GenerateOutcomes :
         ret' = [outcome |-> outcome, result |-> AnalyzePostResult(outcome)]
    /\ apc' = [apc EXCEPT ![c] = "idle"]
    /\ wake' = [wake EXCEPT ![c] = 0]
    /\ UNCHANGED <<now, last_request_time, nreq, issued, batch>>
    /\ UNCHANGED scoringVars
    /\ UNCHANGED channelVars

(***************************************************************************)
(* Operations of the scoring engine.                                       *)
(***************************************************************************)
\* the count arguments (post_count, positive_count, reaction_received,
\* violation_count) the callers of add_user_activity are given: a positive
\* post (score 6), a post with a violation (score -9), reactions alone (score 6)
Activities == {<<1, 1, 0, 0>>, <<1, 0, 0, 1>>, <<0, 0, 3, 0>>}

\* the history entry before the first add_user_activity call
NoCall == [user_id |-> "", user_name |-> ""]

InitScoring ==
    /\ users = <<>>
    /\ file = NoFile
    /\ sums = [u \in UserIds |-> <<0, 0, 0, 0>>]
    /\ firstOrder = <<>>
    /\ saved = <<>>
    /\ loaded = FALSE
    /\ loadOutcome = "none"
    /\ ncalls = 0
    /\ lastCall = NoCall

\* the effect of one add_user_activity call on the engine and its history
RecordActivity(user_id, user_name, post_count, positive_count, reaction_received, violation_count) ==
    /\ users' = AddActivity(users, user_id, user_name, post_count,
                            positive_count, reaction_received, violation_count)
    /\ sums' = [sums EXCEPT ![user_id] =
                   <<@[1] + post_count, @[2] + positive_count,
                     @[3] + reaction_received, @[4] + violation_count>>]
    /\ firstOrder' = IF \E i \in 1..Len(firstOrder) : firstOrder[i] = user_id
                     THEN firstOrder ELSE Append(firstOrder, user_id)
    /\ loaded' = FALSE
    /\ ncalls' = ncalls + 1
    /\ lastCall' = [user_id |-> user_id, user_name |-> user_name]
    /\ UNCHANGED <<file, saved, loadOutcome>>

\* ScoringSystem.add_user_activity, called by a client of the engine
AddUserActivity(user_id, user_name, post_count, positive_count, reaction_received, violation_count) ==
    /\ ncalls < MaxCalls
    /\ RecordActivity(user_id, user_name, post_count, positive_count,
                      reaction_received, violation_count)
    /\ UNCHANGED analyzerVars
    /\ UNCHANGED channelVars

\* ScoringSystem.save_to_file
SaveToFile ==
    /\ file' = Serialize(users)
    /\ saved' = users
    /\ loaded' = FALSE
    /\ UNCHANGED <<users, sums, firstOrder, loadOutcome, ncalls, lastCall>>
    /\ UNCHANGED analyzerVars
    /\ UNCHANGED channelVars

\* ScoringSystem.load_from_file
LoadFromFile ==
    LET r == Load(file, users)
    IN /\ users' = r.users
       /\ loadOutcome' = r.outcome
       /\ loaded' = (r.outcome = "ok")
       /\ UNCHANGED <<file, sums, firstOrder, saved, ncalls, lastCall>>
       /\ UNCHANGED analyzerVars
       /\ UNCHANGED channelVars

SomeActivity ==
    \E user_id \in UserIds, user_name \in UserNames, a \in Activities :
        AddUserActivity(user_id, user_name, a[1], a[2], a[3], a[4])

(***************************************************************************)
(* slack_client.py: what the Slack API gives the processor.                *)
(***************************************************************************)
\* users_info: the directory of the workspace (U3 is a bot user)
UserInfoOf(user) ==
    CASE user = "U1" -> [present |-> TRUE, real_name |-> "A", is_bot |-> FALSE]
      [] user = "U2" -> [present |-> TRUE, real_name |-> "B", is_bot |-> FALSE]
      [] OTHER -> [present |-> TRUE, real_name |-> "Bot", is_bot |-> TRUE]

\* a message without the user_info key
NoUserInfo == [present |-> FALSE, real_name |-> "", is_bot |-> FALSE]

\* a message of conversations_history; a text is the sequence of its words,
\* "" stands for an absent subtype
RawMessage(user, text, subtype) ==
    [user |-> user, text |-> text, subtype |-> subtype, ts |-> "1712.34",
     user_info |-> NoUserInfo]

\* the messages a channel history is made of: thanks, a post with an urgent
\* and a problem keyword, a post with a problem keyword, a post of the bot, a
\* join notice, and a post without text
RawMessages ==
    {RawMessage("U1", <<"Thanks">>, ""),
     RawMessage("U2", <<"kinkyu", "mondai">>, ""),
     RawMessage("U2", <<"mondai">>, ""),
     RawMessage("U3", <<"Thanks">>, ""),
     RawMessage("U1", <<"joined">>, "channel_join"),
     RawMessage("U1", <<>>, "")}

\* the histories of at most n messages
Histories(n) == UNION {[1..k -> RawMessages] : k \in 0..n}

\* enrich_messages_with_user_info: the loop from message i on; a user is
\* looked up while it is not in user_cache, found[i] tells whether the lookup
\* made at message i succeeds
RECURSIVE EnrichFrom(_, _, _, _, _)
EnrichFrom(raw, found, i, user_cache, acc) ==
    IF i > Len(raw) THEN acc
    ELSE LET user_id == raw[i].user
             cached == IF user_id \notin user_cache /\ found[i]
                       THEN user_cache \cup {user_id}
                       ELSE user_cache
             message == IF user_id \in cached
                        THEN [raw[i] EXCEPT !.user_info = UserInfoOf(user_id)]
                        ELSE raw[i]
         IN EnrichFrom(raw, found, i + 1, cached, Append(acc, message))

\* SlackClient.enrich_messages_with_user_info
enrich_messages_with_user_info(raw, found) == EnrichFrom(raw, found, 1, {}, <<>>)

\* the reactions lists reactions_get answers with
ReactionLists ==
    {<<>>, <<[name |-> "thumbsup", count |-> 2], [name |-> "heart", count |-> 1]>>}

\* sum(r.get("count", 0) for r in reactions)
RECURSIVE SumCounts(_)
SumCounts(reactions) ==
    IF reactions = <<>> THEN 0
    ELSE Head(reactions).count + SumCounts(Tail(reactions))

(***************************************************************************)
(* message_processor.py                                                    *)
(***************************************************************************)
\* MessageProcessor._should_analyze
should_analyze(message) ==
    /\ ~message.user_info.is_bot
    /\ message.subtype = ""
    /\ message.text # <<>>

\* bool(value) of a parsed JSON value
Truthy(value) ==
    CASE value.k = "num" -> value.v # 0
      [] value.k = "bool" -> value.v
      [] value.k = "str" -> value.v # ""
      [] value.k = "list" -> value.v # <<>>
      [] value.k = "obj" -> value.v # <<>>
      [] OTHER -> FALSE

\* the keyword lists of _analyze_message: kinkyu, judai, shinkoku, hidoi
\* (urgent) and futekisetsu, mondai, yokunai (problem) stand for the Japanese
\* words of the source
UrgentWords == <<"kinkyu", "judai", "shinkoku", "hidoi">>
ProblemWords == <<"futekisetsu", "mondai", "yokunai">>

\* str.lower on one word
LowerWord(word) == IF word = "Thanks" THEN "thanks" ELSE word

\* text.lower()
Lower(text) == [i \in 1..Len(text) |-> LowerWord(text[i])]

\* any(word in violation_text for word in words)
AnyWordIn(words, violation_text) ==
    \E i \in 1..Len(words) : \E j \in 1..Len(violation_text) :
        violation_text[j] = words[i]

\* a mutation of SeverityOf: the problem keywords are looked for first
SeverityOfProblemFirst(text) ==
    LET violation_text == Lower(text)
    IN IF AnyWordIn(ProblemWords, violation_text) THEN "medium"
       ELSE IF AnyWordIn(UrgentWords, violation_text) THEN "high"
       ELSE "low"

\* _analyze_message: the severity of a violation
SeverityOf(text) ==
    LET violation_text == Lower(text)
    IN IF AnyWordIn(UrgentWords, violation_text) THEN "high"
       ELSE IF AnyWordIn(ProblemWords, violation_text) THEN "medium"
       ELSE "low"

\* message.get("user_info", {}).get("real_name", user_id)
UserNameOf(message) ==
    IF message.user_info.present THEN message.user_info.real_name
    ELSE message.user

\* _analyze_message: `if analysis.get("guideline_violation", False)`
IsViolation(analysis) == Truthy(Get(analysis, "guideline_violation", JBool(FALSE)))

\* _analyze_message: `if analysis.get("is_positive", False)`
IsPositive(analysis) == Truthy(Get(analysis, "is_positive", JBool(FALSE)))

\* _analyze_message: the entry appended to self.violations
ViolationData(message, channel, analysis) ==
    [user_id |-> message.user, user_name |-> UserNameOf(message),
     text |-> message.text, timestamp |-> message.ts, channel_id |-> channel,
     violation_reason |-> Get(analysis, "violation_details", JStr(""))]

\* _analyze_message: the entry appended to self.positive_messages
PositiveData(message, channel, analysis) ==
    [user_id |-> message.user, user_name |-> UserNameOf(message),
     text |-> message.text, timestamp |-> message.ts, channel_id |-> channel,
     positive_type |-> Get(analysis, "positive_details", JStr(""))]

\* float(timestamp) succeeds
ParsesAsFloat(timestamp) == timestamp # ""

\* the ViolationAlert built for a violation
ViolationAlert(message, channel, analysis) ==
    [user_id |-> message.user, user_name |-> UserNameOf(message),
     message_content |-> message.text, channel_id |-> channel,
     message_id |-> message.ts, severity |-> SeverityOf(message.text)]

NoSummary == [kind |-> "none"]
\* process_channel: `return {}`
EmptySummary == [kind |-> "empty"]

\* process_channel: scores[:5]
FirstFive(scores) == SubSeq(scores, 1, IF Len(scores) < 5 THEN Len(scores) ELSE 5)

\* process_channel: the dict returned after the loop
RunSummary ==
    [kind |-> "summary",
     total_messages |-> Len(messages),
     violations_found |-> Len(violations),
     positive_messages |-> Len(positive_messages),
     top_contributors |-> FirstFive(calculate_rankings(users))]

\* the channels get_channels lists; run_analysis processes them in turn
Channels == <<"C100", "C200">>

\* main() was not entered: no run mode chosen, no run_analysis call made, no
\* MessageProcessor built, no report printed, no post_message call made, no
\* exception raised out of run_analysis (error names the call it came from)
NoMain ==
    [pc |-> "start", mode |-> "", token |-> FALSE, key |-> FALSE,
     admin |-> FALSE, channel |-> FALSE, jobs |-> 0, built |-> 0,
     reports |-> 0, notified |-> 0, error |-> ""]

\* the history entry before the first pass of the loop
NoPass ==
    [run |-> 0, idx |-> 0, analysed |-> FALSE, analysis |-> JNull,
     delivered |-> FALSE, reaction_count |-> 0,
     violations |-> 0, positive_messages |-> 0, sent |-> 0, requests |-> 0,
     lookups |-> 0, activity |-> 0, counts |-> <<0, 0, 0, 0>>]

InitChannel ==
    /\ pc = "idle"
    /\ channel_id = ""
    /\ messages = <<>>
    /\ idx = 1
    /\ violations = <<>>
    /\ positive_messages = <<>>
    /\ sent = <<>>
    /\ summary = NoSummary
    /\ nruns = 0
    /\ nfetched = 0
    /\ nlookups = 0
    /\ lastPass = NoPass
    /\ main = NoMain

\* analyze_post called from a sequential run: the remainder of the interval
\* is slept, last_request_time is set, the request is sent and answered
CallAnalyzePost(outcome) ==
    /\ now' = now + SleepTime(now, last_request_time)
    /\ last_request_time' = now'
    /\ issued' = Append(issued, now')
    /\ ret' = [outcome |-> outcome, result |-> AnalyzePostResult(outcome)]
    /\ UNCHANGED <<apc, wake, nreq>>

\* the outcomes of the users_info lookups of one enrichment of n messages:
\* the service answers all of them, or fails all of them
LookupOutcomes(n) == {[i \in 1..n |-> answered] : answered \in BOOLEAN}

\* process_channel up to the loop: get_channel_messages (a SlackApiError
\* gives []), the early return for no messages, and the enrichment
StartChannel ==
    /\ pc \in {"idle", "done"}
    /\ nruns < Len(Channels)
    /\ nruns' = nruns + 1
    /\ channel_id' = Channels[nruns + 1]
    /\ \E history \in Histories(MaxMessages - nfetched), fetched \in BOOLEAN :
         \E found \in LookupOutcomes(Len(history)) :
            LET fetchedMessages == IF fetched THEN history ELSE <<>>
            IN /\ nfetched' = nfetched + Len(fetchedMessages)
               /\ IF fetchedMessages = <<>>
                  THEN /\ pc' = "done"
                       /\ summary' = EmptySummary
                       /\ messages' = <<>>
                  ELSE /\ pc' = "analyzing"
                       /\ summary' = NoSummary
                       /\ messages' = enrich_messages_with_user_info(
                                          fetchedMessages, found)
    /\ idx' = 1
    /\ UNCHANGED <<violations, positive_messages, sent, nlookups, lastPass, main>>
    /\ UNCHANGED scoringVars
    /\ UNCHANGED analyzerVars

\* the four counts of a user's record (zeros when there is no record)
ActivityOf(us, user_id) ==
    IF HasUser(us, user_id)
    THEN LET u == us[IndexOf(us, user_id)]
         IN <<u.post_count, u.positive_count, u.reaction_count, u.violation_count>>
    ELSE <<0, 0, 0, 0>>

\* the history entry of one pass of the loop: the analysis made of the
\* message, the outcomes of the two Slack calls, and, as they were before the
\* pass, the sizes of the logs, the numbers of calls and the author's counts
Pass(analysed, analysis, delivered, reaction_count) ==
    [run |-> nruns, idx |-> idx, analysed |-> analysed, analysis |-> analysis,
     delivered |-> delivered, reaction_count |-> reaction_count,
     violations |-> Len(violations),
     positive_messages |-> Len(positive_messages), sent |-> Len(sent),
     requests |-> Len(issued), lookups |-> nlookups, activity |-> ncalls,
     counts |-> ActivityOf(users, messages[idx].user)]

\* the loop of process_channel on a message _should_analyze rejects
SkipMessage ==
    /\ pc = "analyzing"
    /\ idx <= Len(messages)
    /\ ~should_analyze(messages[idx])
    /\ idx' = idx + 1
    /\ lastPass' = Pass(FALSE, JNull, FALSE, 0)
    /\ UNCHANGED <<pc, channel_id, messages, violations, positive_messages,
                   sent, summary, nruns, nfetched, nlookups, main>>
    /\ UNCHANGED scoringVars
    /\ UNCHANGED analyzerVars

\* the outcomes of get_reactions: a SlackApiError, or a reactions list
ReactionOutcomes ==
    {[error |-> TRUE, reactions |-> <<>>]}
        \cup {[error |-> FALSE, reactions |-> r] : r \in ReactionLists}

\* get_reactions was not called
NotAsked == [error |-> FALSE, reactions |-> <<>>]

\* the answers of generate_content a channel run meets: an exception, or a
\* payload in the form the prompt asks for
Answers == {Raises} \cup {Fenced(p) : p \in Payloads}

\* SlackClient.get_reactions
get_reactions(outcome) == IF outcome.error THEN <<>> ELSE outcome.reactions

\* a mutation of AlertBlock: a failed alert is raised to the caller
AlertBlockReraises(alerted, delivered) ==
    IF alerted /\ ~delivered THEN "raises" ELSE "continues"

\* _analyze_message, the try block around the alert: an exception of the
\* building or the sending is caught and logged
AlertBlock(alerted, delivered) == "continues"

\* the loop of process_channel on a message _should_analyze accepts:
\* _analyze_message as a whole. analysis.get raises AttributeError when
\* analyze_post returned a value that is no dict, and nothing catches it;
\* an exception of send_violation_alert is caught and logged
AnalyzeMessageWith(answers) ==
    /\ pc = "analyzing"
    /\ idx <= Len(messages)
    /\ should_analyze(messages[idx])
    /\ \E outcome \in answers :
        \E analysis \in {AnalyzePostResult(outcome)} :
         LET message == messages[idx]
             isDict == analysis.k = "obj"
             violation == isDict /\ IsViolation(analysis)
             positive == isDict /\ IsPositive(analysis)
             alerted == violation /\ ParsesAsFloat(message.ts)
         IN \E delivered \in (IF alerted THEN BOOLEAN ELSE {FALSE}),
               reacted \in (IF isDict THEN ReactionOutcomes ELSE {NotAsked}) :
          LET reaction_count == SumCounts(get_reactions(reacted))
              proceeds == isDict /\ AlertBlock(alerted, delivered) = "continues"
          IN
            /\ CallAnalyzePost(outcome)
            /\ violations' = IF violation
                             THEN Append(violations,
                                      ViolationData(message, channel_id, analysis))
                             ELSE violations
            /\ sent' = IF alerted
                       THEN Append(sent, ViolationAlert(message, channel_id, analysis))
                       ELSE sent
            /\ positive_messages' =
                 IF positive
                 THEN Append(positive_messages,
                          PositiveData(message, channel_id, analysis))
                 ELSE positive_messages
            /\ IF proceeds
               THEN /\ RecordActivity(message.user, UserNameOf(message), 1,
                                      IF positive THEN 1 ELSE 0,
                                      reaction_count, 0)
                    /\ nlookups' = nlookups + 1
                    /\ pc' = "analyzing"
                    /\ idx' = idx + 1
                    /\ lastPass' = Pass(TRUE, analysis, alerted /\ delivered,
                                    reaction_count)
               ELSE /\ UNCHANGED scoringVars
                    /\ nlookups' = nlookups
                    /\ pc' = "raised"
                    /\ idx' = idx
                    /\ lastPass' = Pass(TRUE, analysis, FALSE, 0)
    /\ UNCHANGED <<channel_id, messages, summary, nruns, nfetched, batch, main>>

\* _analyze_message under the answers a channel run meets
AnalyzeMessage == AnalyzeMessageWith(Answers)

\* process_channel after the loop: the rankings and the returned summary
FinishChannel ==
    /\ pc = "analyzing"
    /\ idx > Len(messages)
    /\ pc' = "done"
    /\ summary' = RunSummary
    /\ UNCHANGED <<channel_id, messages, idx, violations, positive_messages,
                   sent, nruns, nfetched, nlookups, lastPass, main>>
    /\ UNCHANGED scoringVars
    /\ UNCHANGED analyzerVars

(***************************************************************************)
(* content_analyzer.py: batch_analyze.                                     *)
(***************************************************************************)
\* the posts a caller hands to batch_analyze
Posts == {"post1", "post2"}

\* the lists of at most n posts
PostLists(n) == UNION {[1..k -> Posts] : k \in 0..n}

\* a mutation of Collect: the result is put in front
CollectFront(results, result) == <<result>> \o results

\* batch_analyze: results.append(result)
Collect(results, result) == Append(results, result)

\* batch_analyze is called: results = []
BatchStart ==
    /\ batch.pc \in {"idle", "returned"}
    /\ Len(issued) < MaxRequests
    /\ \E posts \in PostLists(MaxRequests - Len(issued)) :
         batch' = [pc |-> "running", posts |-> posts, results |-> <<>>,
                   calls |-> <<>>]
    /\ UNCHANGED <<now, last_request_time, apc, wake, nreq, issued, ret>>
    /\ UNCHANGED scoringVars
    /\ UNCHANGED channelVars

\* batch_analyze, one pass of the loop: analyze_post on the next post
BatchStep ==
    /\ batch.pc = "running"
    /\ Len(batch.results) < Len(batch.posts)
    /\ \E outcome \in GenerateOutcomes :
         /\ CallAnalyzePost(outcome)
         /\ batch' = [batch EXCEPT
                        !.results = Collect(@, ret'.result),
                        !.calls = Append(@, [post |-> batch.posts[Len(batch.results) + 1],
                                             result |-> ret'.result])]
    /\ UNCHANGED scoringVars
    /\ UNCHANGED channelVars

\* batch_analyze, after the loop: return results
BatchReturn ==
    /\ batch.pc = "running"
    /\ Len(batch.results) = Len(batch.posts)
    /\ batch' = [batch EXCEPT !.pc = "returned"]
    /\ UNCHANGED <<now, last_request_time, apc, wake, nreq, issued, ret>>
    /\ UNCHANGED scoringVars
    /\ UNCHANGED channelVars

(***************************************************************************)
(* Specifications.                                                         *)
(***************************************************************************)
Init == InitScoring /\ InitAnalyzer /\ InitChannel

\* the scoring engine under add_user_activity calls
NextScoring == SomeActivity

SpecScoring == Init /\ [][NextScoring]_vars

\* the scoring engine with its score file
NextPersist == SomeActivity \/ SaveToFile \/ LoadFromFile

SpecPersist == Init /\ [][NextPersist]_vars

\* one caller issuing analyze_post calls back to back
NextLimiter == Tick \/ BeginAnalyze(1) \/ SendRequest(1) \/ ReturnAnalysis(1)

SpecLimiter == Init /\ [][NextLimiter]_vars

\* several callers sharing one ContentAnalyzer
NextConcurrent ==
    \/ Tick
    \/ \E c \in Callers : BeginAnalyze(c) \/ SendRequest(c) \/ ReturnAnalysis(c)

SpecConcurrent == Init /\ [][NextConcurrent]_vars

\* the processor running channels one after the other
NextChannel == StartChannel \/ SkipMessage \/ AnalyzeMessage \/ FinishChannel

SpecChannel == Init /\ [][NextChannel]_vars

\* a classifier that answers by the author of the text: no violation and
\* positive for U1, violation score 80 and not positive for the others
AnswerByAuthor(message) ==
    IF message.user = "U1" THEN Fenced(ReplyThanks) ELSE Fenced(ReplyOffence)

\* _analyze_message under that classifier, on messages without reactions
AnalyzeAsScripted ==
    /\ AnalyzeMessage
    /\ ret'.outcome = AnswerByAuthor(messages[idx])
    /\ lastPass'.reaction_count = 0

\* the processor running channels whose messages that classifier answers
NextEndToEnd == StartChannel \/ SkipMessage \/ AnalyzeAsScripted \/ FinishChannel

SpecEndToEnd == Init /\ [][NextEndToEnd]_vars

\* one caller of batch_analyze
NextBatch == BatchStart \/ BatchStep \/ BatchReturn

SpecBatch == Init /\ [][NextBatch]_vars

(***************************************************************************)
(* Claims about the scoring engine.                                        *)
(***************************************************************************)
CountsOf(u) == <<u.post_count, u.positive_count, u.reaction_count, u.violation_count>>

\* C1: after any sequence of add_user_activity calls, the four counts of each
\* user's record equal the elementwise sum of the arguments of all calls made
\* with that user id (and a user never named in a call has no record).
C1_CountsAreSums ==
    \A u \in UserIds :
        IF HasUser(users, u)
        THEN CountsOf(users[IndexOf(users, u)]) = sums[u]
        ELSE sums[u] = <<0, 0, 0, 0>>

\* C1 witness: one user id was named in three calls with different arguments.
C1_Witness ==
    \E u \in UserIds :
        /\ HasUser(users, u)
        /\ CountsOf(users[IndexOf(users, u)]) = <<2, 1, 3, 1>>

PositionIn(seq, x) == CHOOSE i \in 1..Len(seq) : seq[i] = x

\* C2: calculate_rankings returns every record once, ordered by total score
\* descending, and of two records with the same total score the one whose user
\* was first recorded earlier comes first.
C2_RankingsSortedStable ==
    LET r == calculate_rankings(users)
    IN /\ Len(r) = Len(users)
       /\ {r[i] : i \in 1..Len(r)} = {users[i] : i \in 1..Len(users)}
       /\ \A i, j \in 1..Len(r) :
            i < j =>
              /\ calculate_total_score(r[i]) >= calculate_total_score(r[j])
              /\ calculate_total_score(r[i]) = calculate_total_score(r[j])
                   => PositionIn(firstOrder, r[i].user_id)
                        < PositionIn(firstOrder, r[j].user_id)

\* C2 witness: three users, the first two recorded tie behind the third.
C2_Witness ==
    /\ Len(users) = 3
    /\ calculate_total_score(users[1]) = calculate_total_score(users[2])
    /\ calculate_total_score(users[3]) > calculate_total_score(users[1])
    /\ calculate_rankings(users) = <<users[3], users[1], users[2]>>

\* C3: an engine loaded from the file another engine state saved has the same
\* calculate_rankings output (same records, same order) as the state saved.
C3_RoundTrip ==
    loaded => calculate_rankings(users) = calculate_rankings(saved)

\* C3 witness: a file of two or more records, one with a violation, was loaded
\* over an engine that had recorded more activity after the save.
C3_Witness ==
    /\ loaded
    /\ Len(saved) >= 2
    /\ \E i \in 1..Len(users) : users[i].violation_count > 0
    /\ \E u \in UserIds :
         HasUser(users, u) /\ CountsOf(users[IndexOf(users, u)]) # sums[u]

(***************************************************************************)
(* Claims about the classification client.                                 *)
(***************************************************************************)
\* C4: when one caller issues analyze_post calls back to back, consecutive
\* requests are sent at least the request interval apart, so N requests span
\* at least (N-1) intervals.
C4_SingleCallerSpacing ==
    /\ \A i \in 1..(Len(issued) - 1) :
         issued[i + 1] - issued[i] >= RequestInterval
    /\ Len(issued) >= 1 =>
         issued[Len(issued)] - issued[1] >= (Len(issued) - 1) * RequestInterval

\* C4 witness: three requests, each sent the moment the sleep before it ended.
C4_Witness ==
    /\ Len(issued) = 3
    /\ issued[2] = issued[1] + RequestInterval
    /\ issued[3] = issued[2] + RequestInterval

\* C5: with several callers on one ContentAnalyzer, no two requests of any
\* callers are sent less than the request interval apart.
C5_NoTwoRequestsTooClose ==
    \A i, j \in 1..Len(issued) :
        i < j => issued[j] - issued[i] >= RequestInterval

\* the fields a ClassificationResult must carry, with their types
IsClassificationResult(value) ==
    /\ value.k = "obj"
    /\ HasKey(value, "guideline_violation")
    /\ Lookup(value, "guideline_violation").k = "num"
    /\ Lookup(value, "guideline_violation").v \in 0..100
    /\ HasKey(value, "positive_feedback")
    /\ Lookup(value, "positive_feedback").k = "bool"
    /\ HasKey(value, "contribution_score")
    /\ Lookup(value, "contribution_score").k = "num"

\* the generate call failed: it raised, or its text carries no JSON value of
\* the ClassificationResult shape
FailedOutcome(outcome) ==
    \/ outcome = Raises
    \/ \A i \in 1..Len(outcome) :
         outcome[i].t = "json" => ~IsClassificationResult(outcome[i].v)

\* C6: analyze_post returns the safe default for every failed generate call
\* (exception, non-JSON text, malformed payload) and a result of the
\* ClassificationResult shape otherwise.
C6_FailuresGiveSafeDefault ==
    ret # NoReturn =>
        IF FailedOutcome(ret.outcome)
        THEN ret.result = SafeDefault
        ELSE IsClassificationResult(ret.result)

(***************************************************************************)
(* Claims about the channel processor.                                     *)
(***************************************************************************)
\* the latest pass of the loop analysed its message and got a dict back
AnalysedPass == lastPass.analysed /\ lastPass.analysis.k = "obj"

\* the message of the latest pass of the current run
PassMessage == messages[lastPass.idx]

\* C7: an eligible message is appended to the violations log and turned into
\* an alert if and only if the violation score of its classification result
\* is strictly greater than 50 (a score from 1 to 50 gives no violation).
C7_ViolationIffScoreOver50 ==
    AnalysedPass =>
        LET score == Get(lastPass.analysis, "guideline_violation", JNum(0))
            over50 == score.k = "num" /\ score.v > 50
        IN /\ (Len(violations) > lastPass.violations) <=> over50
           /\ (Len(sent) > lastPass.sent) <=> over50

\* the words of a lowered text
WordsOf(text) == {Lower(text)[j] : j \in 1..Len(text)}

\* C8: every violation has an alert whose severity is high when the lowered
\* text holds an urgent keyword (a problem keyword or not), medium when it
\* holds no urgent keyword but a problem keyword, and low otherwise.
C8_SeverityByKeywordPriority ==
    /\ Len(sent) = Len(violations)
    /\ \A i \in 1..Len(sent) :
         LET words == WordsOf(violations[i].text)
             urgent == \E k \in 1..Len(UrgentWords) : UrgentWords[k] \in words
             problem == \E k \in 1..Len(ProblemWords) : ProblemWords[k] \in words
         IN /\ sent[i].message_content = violations[i].text
            /\ urgent => sent[i].severity = "high"
            /\ (~urgent /\ problem) => sent[i].severity = "medium"
            /\ (~urgent /\ ~problem) => sent[i].severity = "low"

\* C8 witness: a run raised two alerts, a high one for a text holding an
\* urgent and a problem keyword, and a medium or low one.
C8_Witness ==
    \E i, j \in 1..Len(sent) :
        /\ "kinkyu" \in WordsOf(sent[i].message_content)
        /\ "mondai" \in WordsOf(sent[i].message_content)
        /\ sent[i].severity = "high"
        /\ sent[j].severity \in {"medium", "low"}

\* C9: an eligible message is appended to the positive-feedback log and
\* credited with positive_count 1 if and only if the positive flag of the
\* result analyze_post produced for it (positive_feedback) is true.
C9_PositiveIffPositiveFlag ==
    (AnalysedPass /\ lastPass.run = nruns) =>
        LET flag == Truthy(Get(lastPass.analysis, "positive_feedback", JBool(FALSE)))
            credit == ActivityOf(users, PassMessage.user)[2] - lastPass.counts[2]
        IN /\ (Len(positive_messages) > lastPass.positive_messages) <=> flag
           /\ credit = (IF flag THEN 1 ELSE 0)

\* C10: in a channel run a message is classified and scored if and only if
\* its author is no bot, it has no subtype and its text is not empty; an
\* excluded message causes no classification call, no reaction lookup and no
\* scoring update; total_messages of the summary counts every fetched message.
C10_ClassifiedAndScoredIffEligible ==
    /\ (lastPass.run = nruns /\ nruns > 0 /\ lastPass.idx > 0) =>
         LET eligible == /\ ~PassMessage.user_info.is_bot
                         /\ PassMessage.subtype = ""
                         /\ PassMessage.text # <<>>
             classified == Len(issued) > lastPass.requests
             looked == nlookups > lastPass.lookups
             scored == ncalls > lastPass.activity
         IN /\ classified <=> eligible
            /\ scored <=> eligible
            /\ looked => eligible
    /\ summary.kind = "summary" => summary.total_messages = Len(messages)

\* C11: for every eligible message processed, the author's counts grow by
\* post_count 1, positive_count 1 exactly when the message was recorded as
\* positive, reaction_count the total looked up for the message, and
\* violation_count 1 exactly when the message was recorded as a violation.
C11_ActivityMatchesOutcome ==
    (AnalysedPass /\ lastPass.run = nruns) =>
        LET after == ActivityOf(users, PassMessage.user)
            violation == Len(violations) > lastPass.violations
            positive == Len(positive_messages) > lastPass.positive_messages
        IN /\ after[1] - lastPass.counts[1] = 1
           /\ after[2] - lastPass.counts[2] = (IF positive THEN 1 ELSE 0)
           /\ after[3] - lastPass.counts[3] = lastPass.reaction_count
           /\ after[4] - lastPass.counts[4] = (IF violation THEN 1 ELSE 0)

\* C12: a fresh processor that ran one channel of two eligible messages, the
\* first by U1 classified {violation score 0, positive true}, the second by
\* U2 classified {violation score 80, positive false}, no reactions, returns
\* total_messages 2, violations_found 1, positive_messages 1, and the
\* rankings place U1 with score 6 above U2 with score -9.
C12_EndToEnd ==
    (/\ pc = "done" /\ nruns = 1 /\ Len(messages) = 2
     /\ messages[1].user = "U1" /\ should_analyze(messages[1])
     /\ messages[2].user = "U2" /\ should_analyze(messages[2])) =>
        LET scores == calculate_rankings(users)
        IN /\ summary.kind = "summary"
           /\ summary.total_messages = 2
           /\ summary.violations_found = 1
           /\ summary.positive_messages = 1
           /\ Len(scores) = 2
           /\ scores[1].user_id = "U1" /\ calculate_total_score(scores[1]) = 6
           /\ scores[2].user_id = "U2" /\ calculate_total_score(scores[2]) = -9

\* the latest pass of the current run logged a violation whose alert failed
AlertFailedPass ==
    /\ lastPass.analysed /\ lastPass.run = nruns
    /\ Len(violations) > lastPass.violations
    /\ ~lastPass.delivered

\* C13: when the alert of a violation fails, the violation stays in the
\* violations log, the scoring update of the same message is applied, and
\* the loop goes on to the next message instead of raising.
C13_AlertFailureAbsorbed ==
    AlertFailedPass =>
        /\ violations[Len(violations)].text = PassMessage.text
        /\ violations[Len(violations)].user_id = PassMessage.user
        /\ ncalls = lastPass.activity + 1
        /\ ActivityOf(users, PassMessage.user)[1] = lastPass.counts[1] + 1
        /\ ActivityOf(users, PassMessage.user)[3]
               = lastPass.counts[3] + lastPass.reaction_count
        /\ pc \in {"analyzing", "done"}
        /\ idx = lastPass.idx + 1

\* C13 witness: the alert of the first of two messages failed, the author
\* was scored with the reactions looked up, and the second message is next.
C13_Witness ==
    /\ AlertFailedPass
    /\ lastPass.idx = 1 /\ Len(messages) = 2 /\ idx = 2 /\ pc = "analyzing"
    /\ lastPass.reaction_count = 3
    /\ ActivityOf(users, PassMessage.user) = <<1, 0, 3, 0>>

\* C14: whatever the classifier gives for a message (a service error, text
\* that is no JSON, JSON that is no object with the expected fields),
\* process_channel does not abort: no pass of the loop ends in an exception,
\* and the pass after an analysed message stands at the next message.
C14_NeverAborts ==
    /\ pc # "raised"
    /\ (lastPass.analysed /\ lastPass.run = nruns) => idx = lastPass.idx + 1

\* C15: every process_channel call returns a summary carrying
\* total_messages, violations_found, positive_messages and top_contributors;
\* a call whose fetch gave no messages returns the summary with all counts 0
\* and no contributors.
C15_AlwaysRunSummary ==
    /\ pc # "raised"
    /\ pc = "done" => summary.kind = "summary"
    /\ (pc = "done" /\ messages = <<>>) =>
         /\ summary.kind = "summary"
         /\ summary.total_messages = 0
         /\ summary.violations_found = 0
         /\ summary.positive_messages = 0
         /\ summary.top_contributors = <<>>

\* the user ids of the records in the dict's order
UserOrder(us) == [i \in 1..Len(us) |-> us[i].user_id]

\* log is prior with at most one entry added at its end, of that user
GrowsBy(log, prior, user) ==
    \/ log = prior
    \/ /\ Len(log) = Len(prior) + 1
       /\ SubSeq(log, 1, Len(prior)) = prior
       /\ log[Len(log)].user_id = user

\* C16: within one run the messages are handled one at a time in fetch
\* order: each pass of the loop takes the message at the current position,
\* makes at most one classification call and moves to the next position, and
\* whatever it adds to the violations log, the alerts, the positive log and
\* the users' first-activity order it adds at the end, for that message.
C16_FetchOrder ==
    [][(nruns' = nruns /\ lastPass' # lastPass) =>
          LET message == messages[idx]
          IN /\ lastPass'.idx = idx
             /\ idx' = idx + 1 \/ (idx' = idx /\ pc' = "raised")
             /\ Len(issued') <= Len(issued) + 1
             /\ Len(issued') > Len(issued) => lastPass'.analysed
             /\ GrowsBy(violations', violations, message.user)
             /\ GrowsBy(sent', sent, message.user)
             /\ GrowsBy(positive_messages', positive_messages, message.user)
             /\ \/ UserOrder(users') = UserOrder(users)
                \/ UserOrder(users') = Append(UserOrder(users), message.user)
      ]_vars

\* C16 witness: a run of a message of U1 followed by a message of U2 went
\* over both, each a violation and positive.
C16_Witness ==
    /\ nruns = 1 /\ Len(messages) = 2 /\ idx = 3 /\ Len(issued) = 2
    /\ messages[1].user = "U1" /\ messages[2].user = "U2"
    /\ [i \in 1..Len(violations) |-> violations[i].user_id] = <<"U1", "U2">>
    /\ [i \in 1..Len(sent) |-> sent[i].user_id] = <<"U1", "U2">>
    /\ [i \in 1..Len(positive_messages) |-> positive_messages[i].user_id]
           = <<"U1", "U2">>
    /\ UserOrder(users) = <<"U1", "U2">>

(***************************************************************************)
(* Claims about the exposed scores and rankings.                           *)
(***************************************************************************)
\* the numbers of entries get_rankings is asked for
TopNs == 0..4

\* C17: in every state the total_score of each record calculate_rankings
\* returns, and of each get_rankings entry, is post_count*1 +
\* positive_count*5 + reaction_count*2 - violation_count*10 of that record.
C17_TotalScoreIsDerived ==
    LET scores == calculate_rankings(users)
    IN /\ \A i \in 1..Len(scores) :
            scores[i].total_score
                = scores[i].post_count * 1 + scores[i].positive_count * 5
                  + scores[i].reaction_count * 2 - scores[i].violation_count * 10
       /\ \A n \in TopNs : \A i \in 1..Len(get_rankings(users, n)) :
            get_rankings(users, n)[i].total_score
                = scores[i].post_count * 1 + scores[i].positive_count * 5
                  + scores[i].reaction_count * 2 - scores[i].violation_count * 10

\* C18: add_user_activity with an unseen user id adds exactly one record, at
\* the end, carrying the given user_name; with a seen user id it adds no
\* record and leaves the record's user_name as it was; and it never changes
\* the record of another user.
C18_FirstWriteWins ==
    [][LET user_id == lastCall'.user_id
       IN IF HasUser(users, user_id)
          THEN /\ Len(users') = Len(users)
               /\ \A i \in 1..Len(users) :
                    /\ users'[i].user_id = users[i].user_id
                    /\ users'[i].user_name = users[i].user_name
                    /\ users[i].user_id # user_id => users'[i] = users[i]
          ELSE /\ Len(users') = Len(users) + 1
               /\ SubSeq(users', 1, Len(users)) = users
               /\ users'[Len(users')].user_id = user_id
               /\ users'[Len(users')].user_name = lastCall'.user_name
      ]_vars

\* C18 witness: the latest call named a user seen before, under another
\* user_name than the one of the user's record, with other users recorded.
C18_Witness ==
    /\ Len(users) >= 2
    /\ HasUser(users, lastCall.user_id)
    /\ users[IndexOf(users, lastCall.user_id)].user_name # lastCall.user_name
    /\ sums[lastCall.user_id][1] >= 2

\* C19: for every n >= 0, get_rankings(n) returns min(n, number of users)
\* entries, the entry at position i carrying rank i and the user and counts
\* of the record at position i of calculate_rankings.
C19_GetRankingsIsPrefix ==
    \A n \in TopNs :
        LET rankings == get_rankings(users, n)
            scores == calculate_rankings(users)
        IN /\ Len(rankings) = (IF n < Len(users) THEN n ELSE Len(users))
           /\ \A i \in 1..Len(rankings) :
                /\ rankings[i].rank = i
                /\ rankings[i].user_id = scores[i].user_id
                /\ rankings[i].user_name = scores[i].user_name
                /\ rankings[i].post_count = scores[i].post_count
                /\ rankings[i].positive_count = scores[i].positive_count
                /\ rankings[i].reaction_count = scores[i].reaction_count

\* C19 witness: three users whose ranking is not their insertion order, so
\* that n = 2 cuts the ranking and n = 4 is more than there are users.
C19_Witness ==
    /\ Len(users) = 3
    /\ Len(get_rankings(users, 2)) = 2
    /\ Len(get_rankings(users, 4)) = 3
    /\ get_rankings(users, 2)[1].user_id # users[1].user_id
    /\ get_rankings(users, 2)[2].rank = 2

(***************************************************************************)
(* Claims about batch_analyze.                                             *)
(***************************************************************************)
\* C20: batch_analyze on k posts returns k results, the i-th being what
\* analyze_post returned for the i-th post; the calls are made one after
\* another in input order through the one rate limiter, so that their
\* requests are at least the interval apart, also when calls fail.
C20_BatchInOrder ==
    /\ Len(batch.calls) = Len(batch.results)
    /\ \A i \in 1..Len(batch.calls) : batch.calls[i].post = batch.posts[i]
    /\ \A i, j \in 1..Len(issued) :
         i < j => issued[j] - issued[i] >= RequestInterval
    /\ batch.pc = "returned" =>
         /\ Len(batch.results) = Len(batch.posts)
         /\ \A i \in 1..Len(batch.posts) :
              batch.results[i] = batch.calls[i].result

\* C20 witness: a batch of three posts returned; the first call failed and
\* gave the safe default, the others gave two different classifications.
C20_Witness ==
    /\ batch.pc = "returned"
    /\ batch.posts = <<"post1", "post2", "post1">>
    /\ batch.results = <<SafeDefault, ReplyOffence, ReplyThanks>>

(***************************************************************************)
(* main_slack_bot.py: main, scheduled_job and run_analysis.                *)
(***************************************************************************)
\* the run_analysis calls of one execution in scheduled mode
MaxJobs == 2

\* main: --schedule, --test, or neither (a single run)
RunModes == {"single", "schedule", "test"}

\* the command line and the configuration of an execution: the run mode,
\* whether SLACK_BOT_TOKEN and GEMINI_API_KEY are set, whether an admin
\* channel is given (--admin-channel, or ADMIN_CHANNEL_ID in scheduled mode)
\* and whether --channel is given (read by a single run only)
Settings ==
    {s \in [mode : RunModes, token : BOOLEAN, key : BOOLEAN,
            admin : BOOLEAN, channel : BOOLEAN] :
        /\ s.channel => s.mode = "single"
        /\ s.admin => s.mode # "test"
        /\ (~s.token \/ ~s.key) => (~s.admin /\ ~s.channel)}

\* the variables of the processor and its parts that main leaves alone
\* outside process_channel
processorVars ==
    <<pc, channel_id, messages, idx, violations, positive_messages, sent,
      summary, nruns, nfetched, nlookups, lastPass>>

\* main: parse_args and the choice of the branch
MainStart ==
    /\ main.pc = "start"
    /\ \E s \in Settings :
         main' = [main EXCEPT !.pc = "job", !.mode = s.mode, !.token = s.token,
                              !.key = s.key, !.admin = s.admin,
                              !.channel = s.channel]
    /\ UNCHANGED processorVars
    /\ UNCHANGED scoringVars
    /\ UNCHANGED analyzerVars

\* `if not slack_token or not gemini_key`
ConfigMissing(m) == ~m.token \/ ~m.key

\* the channels one analysis processes: the channel of --channel, the first
\* channel in test mode, else every channel get_channels lists
ChannelLimit == IF main.channel \/ main.mode = "test" THEN 1 ELSE Len(Channels)

\* MessageProcessor(slack_token, gemini_key): a new client, analyzer, scoring
\* engine and notification system, and empty logs
NewProcessor ==
    /\ users' = <<>>
    /\ sums' = [u \in UserIds |-> <<0, 0, 0, 0>>]
    /\ firstOrder' = <<>>
    /\ ncalls' = 0
    /\ lastCall' = NoCall
    /\ last_request_time' = 0
    /\ issued' = <<>>
    /\ ret' = NoReturn
    /\ pc' = "idle"
    /\ channel_id' = ""
    /\ messages' = <<>>
    /\ idx' = 1
    /\ violations' = <<>>
    /\ positive_messages' = <<>>
    /\ sent' = <<>>
    /\ summary' = NoSummary
    /\ nruns' = 0
    /\ nlookups' = 0
    /\ lastPass' = NoPass
    /\ UNCHANGED <<file, saved, loaded, loadOutcome, now, apc, wake, nreq,
                   batch, nfetched>>

\* run_analysis (and the --test branch of main) up to the first channel: a
\* missing token or key is logged and the function returns; else the
\* processor is built, where auth_test of SlackClient.__init__ may raise
\* SlackApiError, and get_channels lists the channels or, on an error, none
RunAnalysis ==
    /\ main.pc = "job"
    /\ IF ConfigMissing(main)
       THEN /\ main' = [main EXCEPT !.jobs = @ + 1,
                           !.pc = IF main.mode = "test" THEN "exited"
                                  ELSE "returned"]
            /\ UNCHANGED processorVars
            /\ UNCHANGED scoringVars
            /\ UNCHANGED analyzerVars
       ELSE \E connected \in BOOLEAN, listed \in BOOLEAN :
              IF ~connected
              THEN /\ main' = [main EXCEPT !.jobs = @ + 1, !.pc = "crashed",
                                            !.error = "auth_test"]
                   /\ UNCHANGED processorVars
                   /\ UNCHANGED scoringVars
                   /\ UNCHANGED analyzerVars
              ELSE /\ NewProcessor
                   /\ main' = [main EXCEPT
                          !.jobs = @ + 1,
                          !.built = @ + 1,
                          !.pc = IF main.channel \/ listed THEN "channels"
                                 ELSE IF main.mode = "test" THEN "exited"
                                 ELSE "report"]

\* the process_channel calls of one analysis, step by step
ChannelStep(step) ==
    /\ main.pc = "channels"
    /\ step

\* process_channel is called for the next channel
NextChannelStart ==
    /\ nruns < ChannelLimit
    /\ ChannelStep(StartChannel)

\* the last process_channel call returned: run_analysis goes on to the
\* reports, the --test branch ends main
ChannelsDone ==
    /\ main.pc = "channels"
    /\ pc = "done"
    /\ nruns = ChannelLimit
    /\ main' = [main EXCEPT !.pc = IF main.mode = "test" THEN "exited"
                                   ELSE "report"]
    /\ UNCHANGED processorVars
    /\ UNCHANGED scoringVars
    /\ UNCHANGED analyzerVars

\* process_channel raised: run_analysis logs the exception and raises it
\* again, and neither scheduled_job nor main catches it
ChannelRaised ==
    /\ main.pc = "channels"
    /\ pc = "raised"
    /\ main' = [main EXCEPT !.pc = "crashed", !.error = "process_channel"]
    /\ UNCHANGED processorVars
    /\ UNCHANGED scoringVars
    /\ UNCHANGED analyzerVars

\* `if admin_channel and processor.violations`
Notifies == main.admin /\ violations # <<>>

\* run_analysis after the channels: the reports and the ranking are printed,
\* then notify_violations posts to the admin channel; post_message logs a
\* SlackApiError and raises it again, notify_violations does not catch it,
\* run_analysis logs it and raises it again
Report ==
    /\ main.pc = "report"
    /\ \E posted \in (IF Notifies THEN BOOLEAN ELSE {FALSE}) :
         main' = [main EXCEPT
                    !.reports = @ + 1,
                    !.notified = IF Notifies /\ posted THEN @ + 1 ELSE @,
                    !.pc = IF Notifies /\ ~posted THEN "crashed"
                           ELSE "returned",
                    !.error = IF Notifies /\ ~posted THEN "post_message"
                              ELSE @]
    /\ UNCHANGED processorVars
    /\ UNCHANGED scoringVars
    /\ UNCHANGED analyzerVars

\* run_analysis returned: a single run ends main, scheduled mode enters
\* `while True: schedule.run_pending(); time.sleep(60)`
Return ==
    /\ main.pc = "returned"
    /\ main' = [main EXCEPT !.pc = IF main.mode = "schedule" THEN "waiting"
                                   ELSE "exited"]
    /\ UNCHANGED processorVars
    /\ UNCHANGED scoringVars
    /\ UNCHANGED analyzerVars

\* scheduled mode: run_pending calls scheduled_job at 09:00 of the next day
NextJob ==
    /\ main.pc = "waiting"
    /\ main.jobs < MaxJobs
    /\ main' = [main EXCEPT !.pc = "job"]
    /\ UNCHANGED processorVars
    /\ UNCHANGED scoringVars
    /\ UNCHANGED analyzerVars

\* one execution of main_slack_bot.py
NextMain ==
    \/ MainStart
    \/ RunAnalysis
    \/ NextChannelStart
    \/ ChannelStep(SkipMessage)
    \/ ChannelStep(AnalyzeMessage)
    \/ ChannelStep(FinishChannel)
    \/ ChannelsDone
    \/ ChannelRaised
    \/ Report
    \/ Return
    \/ NextJob

SpecMain == Init /\ [][NextMain]_vars

(***************************************************************************)
(* Claims about main and run_analysis.                                     *)
(***************************************************************************)
\* C21: when the Slack token or the classifier key is missing, no processor
\* is built, no channel is fetched, classified or scored, no report is
\* printed and no notification is posted, and the execution halts in every
\* run mode: main does not go on to wait for, or start, a further job.
C21_MissingConfigIsFatal ==
    (main.pc # "start" /\ ConfigMissing(main)) =>
        /\ main.built = 0
        /\ nruns = 0 /\ issued = <<>> /\ ncalls = 0
        /\ main.reports = 0 /\ main.notified = 0
        /\ main.pc # "waiting"
        /\ main.jobs <= 1

(***************************************************************************)
(* Claims about whole runs of the processor.                               *)
(***************************************************************************)
RECURSIVE SumPostCount(_)
\* the sum of post_count over the records of us
SumPostCount(us) ==
    IF us = <<>> THEN 0 ELSE Head(us).post_count + SumPostCount(Tail(us))

\* C22: the pass of the loop over an eligible message makes exactly one
\* classification request and exactly one add_user_activity call, which
\* raises the author's post_count by one, and hands at most one alert to the
\* notification system; and in every state the sum of post_count over all
\* records is the number of eligible messages met so far (one classification
\* request each).
C22_OneMessageOneUpdate ==
    /\ SumPostCount(users) = Len(issued)
    /\ lastPass.analysed =>
         /\ Len(issued) = lastPass.requests + 1
         /\ ncalls = lastPass.activity + 1
         /\ Len(sent) <= lastPass.sent + 1
         /\ lastPass.run = nruns /\ pc # "done" =>
              ActivityOf(users, messages[lastPass.idx].user)[1]
                 = lastPass.counts[1] + 1

\* the entries of a log that were recorded for the channel
InChannel(log, channel) ==
    Cardinality({i \in 1..Len(log) : log[i].channel_id = channel})

\* C23: the violations_found and positive_messages of the summary a
\* process_channel call returned are the numbers of violations and positive
\* messages recorded for the channel of that call, whatever the processor
\* recorded for the channels before it.
C23_SummaryCountsThisCall ==
    summary.kind = "summary" =>
        /\ summary.violations_found = InChannel(violations, channel_id)
        /\ summary.positive_messages = InChannel(positive_messages, channel_id)

\* C24: no failure of a Slack call leaves process_channel, notify_violations
\* or run_analysis as an exception: process_channel raises only on a
\* classification that is no dict (never on a failed history fetch, author
\* lookup or reaction lookup), and no exception of post_message leaves
\* run_analysis.
C24_PlatformFailuresRecovered ==
    /\ pc = "raised" => (lastPass.analysed /\ lastPass.analysis.k # "obj")
    /\ main.error # "post_message"

(***************************************************************************)
(* scoring_system.py: load_from_file on a file the engine did not write.    *)
(***************************************************************************)
\* a file json.load cannot parse
Unparsable == [k |-> "garbage", v |-> <<>>]

\* one member of a score document: user_name, counts and total_score
ScoreMember(user_id, user_name, counts, total_score) ==
    Member(user_id,
           JObj(<<Member("user_name", JStr(user_name)),
                  Member("post_count", JNum(counts[1])),
                  Member("positive_count", JNum(counts[2])),
                  Member("reaction_count", JNum(counts[3])),
                  Member("violation_count", JNum(counts[4])),
                  Member("total_score", JNum(total_score))>>))

\* a member that carries the name under another key: it has no user_name
NamelessMember(user_id) ==
    Member(user_id,
           JObj(<<Member("name", JStr("B")),
                  Member("post_count", JNum(1)),
                  Member("positive_count", JNum(0)),
                  Member("reaction_count", JNum(0)),
                  Member("violation_count", JNum(0)),
                  Member("total_score", JNum(1))>>))

\* the files load_from_file may be pointed at: documents whose total_score
\* agrees with the counts (7 = 2*1 + 1*5) or does not (40), documents with a
\* member lacking user_name first or after a well-formed one, a document
\* that is a list, and a file that is no JSON
Documents ==
    { JObj(<<ScoreMember("U1", "A", <<2, 1, 0, 0>>, 7)>>),
      JObj(<<ScoreMember("U1", "A", <<2, 1, 0, 0>>, 40)>>),
      JObj(<<ScoreMember("U2", "B", <<1, 0, 0, 0>>, 0),
             ScoreMember("U1", "A", <<2, 1, 0, 0>>, 7)>>),
      JObj(<<ScoreMember("U1", "A", <<2, 1, 0, 0>>, 7), NamelessMember("U2")>>),
      JObj(<<NamelessMember("U2")>>),
      JList(<<>>),
      Unparsable }

\* the score file is written, replaced or removed outside the engine
PutFile ==
    /\ \E f \in Documents \cup {NoFile} : file' = f
    /\ file' # file
    /\ loaded' = FALSE
    /\ UNCHANGED <<users, sums, firstOrder, saved, loadOutcome, ncalls, lastCall>>
    /\ UNCHANGED analyzerVars
    /\ UNCHANGED channelVars

\* the scoring engine loading files it finds
NextLoad == SomeActivity \/ PutFile \/ LoadFromFile

SpecLoad == Init /\ [][NextLoad]_vars

\* C25: after load_from_file the total_score of every loaded record is the
\* weighted sum of the loaded counts, whatever total_score the file carries,
\* and so is the total_score of every record calculate_rankings returns.
C25_TotalScoreRecomputedOnLoad ==
    loaded =>
        /\ \A i \in 1..Len(users) :
             users[i].total_score = calculate_total_score(users[i])
        /\ \A i \in 1..Len(users) :
             calculate_rankings(users)[i].total_score
                = calculate_total_score(calculate_rankings(users)[i])

\* C29: a load_from_file call leaves the map exactly as it was, or replaces
\* it by one record per member of the document, in document order, and
\* returns normally; on a missing file it returns normally and leaves the map
\* as it was.
C29_LoadAllOrNothing ==
    [][LoadFromFile =>
          /\ \/ users' = users
             \/ /\ loadOutcome' = "ok"
                /\ Len(users') = Len(file.v)
                /\ \A i \in 1..Len(users') : users'[i].user_id = file.v[i].key
          /\ file = NoFile => (loadOutcome' = "missing" /\ users' = users)]_vars

\* C26: no step of a sequence of process_channel runs on one processor
\* removes a user's record or lowers one of its four counts.
C26_CountsNeverDecrease ==
    [][\A u \in UserIds :
         HasUser(users, u) =>
            /\ HasUser(users', u)
            /\ \A k \in 1..4 : ActivityOf(users', u)[k] >= ActivityOf(users, u)[k]]_vars

\* C26 witness: the second run on the processor has added to a record the
\* first run made, which now counts two posts and some reactions.
C26_Witness ==
    /\ nruns = 2
    /\ lastPass.run = 2 /\ lastPass.analysed /\ lastPass.counts[1] = 1
    /\ \E u \in UserIds : ActivityOf(users, u)[1] = 2 /\ ActivityOf(users, u)[3] > 0

\* C27: a process_channel call goes from the fetch to the loop over the
\* messages, from the loop to the ranking and from there to its return, and
\* nowhere else: a fetch that gives no message returns the empty summary at
\* once, the loop is left only for the ranking, and the ranking of the
\* summary is computed when the loop has passed every message.
C27_PhasesInOrder ==
    [][/\ (pc \in {"idle", "done"} /\ pc' = "done") =>
             (messages' = <<>> /\ summary' = EmptySummary)
       /\ (pc \in {"idle", "done"} /\ pc' = "analyzing") =>
             (messages' # <<>> /\ idx' = 1)
       /\ pc = "analyzing" => pc' \in {"analyzing", "done"}
       /\ (pc = "analyzing" /\ pc' = "done") =>
             /\ idx > Len(messages)
             /\ summary'.kind = "summary"
             /\ summary'.top_contributors = FirstFive(calculate_rankings(users))
       /\ pc = "raised" => pc' = "raised"]_vars

(***************************************************************************)
(* Claims about a message flagged both ways.                               *)
(***************************************************************************)
\* a reply in the form the prompt asks for that scores the post as a
\* violation (80) and flags it as positive feedback
ReplyMixed ==
    Analysis(JNum(80), JStr("sarcasm"), JBool(TRUE), JStr("gratitude"), JNum(2))

\* the classifier flags every post both ways: in the fields of the prompt, or
\* in those and in is_positive too
BothWays == {Fenced(ReplyMixed), Fenced(ReplyBoth)}

\* _analyze_message under that classifier
AnalyzeFlaggedBoth == AnalyzeMessageWith(BothWays)

\* the processor running channels whose posts are all flagged both ways
NextFlagged == StartChannel \/ SkipMessage \/ AnalyzeFlaggedBoth \/ FinishChannel

SpecFlagged == Init /\ [][NextFlagged]_vars

\* the classification scores a violation (above 50) and flags positive feedback
FlaggedBoth(analysis) ==
    /\ analysis.k = "obj"
    /\ Get(analysis, "guideline_violation", JNum(0)).v > 50
    /\ Get(analysis, "positive_feedback", JBool(FALSE)) = JBool(TRUE)

\* C28: the pass over a message the classifier flags both as a violation and
\* as positive appends one entry to the violations log and hands one alert
\* to the notification system, and also appends one entry to the positive
\* log and adds one to the author's positive_count.
C28_BothOutcomesRecorded ==
    (lastPass.analysed /\ FlaggedBoth(lastPass.analysis)) =>
        /\ Len(violations) = lastPass.violations + 1
        /\ Len(sent) = lastPass.sent + 1
        /\ Len(positive_messages) = lastPass.positive_messages + 1
        /\ lastPass.run = nruns =>
             ActivityOf(users, messages[lastPass.idx].user)[2]
                = lastPass.counts[2] + 1

====
